---- MODULE Spec2Model ----
(***************************************************************************)
(* A model of the routefinder Router (src/src/router.rs) and of its result *)
(* types Matches and Match (src/src/matches.rs).                           *)
(*                                                                         *)
(* Strings are sequences of one-character strings, so that parsing a       *)
(* pattern and walking a path are computed character by character.  The    *)
(* Route, RouteSpec and Segment types are used by the two source files but *)
(* are not part of them; they are modelled from the specification.         *)
(***************************************************************************)
EXTENDS Integers, Sequences, FiniteSets, TLC

VARIABLES routes, res

vars == <<routes, res>>

(***************************************************************************)
(* Bounds of the model.                                                    *)
(***************************************************************************)
MaxRoutes == 3
MaxPathComps == 2

(***************************************************************************)
(* Strings.                                                                *)
(***************************************************************************)
Less == "Less"
Equal == "Equal"
Greater == "Greater"

\* The byte value of a character, which is what Rust's str ordering compares.
CharCode(c) ==
  CASE c = "*" -> 42
    [] c = "/" -> 47
    [] c = ":" -> 58
    [] c = "a" -> 97
    [] c = "b" -> 98
    [] c = "t" -> 116
    [] c = "x" -> 120
    [] c = "y" -> 121

IntCmp(a, b) == IF a < b THEN Less ELSE IF a > b THEN Greater ELSE Equal

Min(S) == CHOOSE x \in S : \A y \in S : x <= y

\* Lexicographic comparison of two strings; a strict prefix is Less.
StrCmp(s, t) ==
  LET d == {i \in 1..Len(s) : i <= Len(t) /\ s[i] # t[i]}
  IN IF d # {}
       THEN IntCmp(CharCode(s[Min(d)]), CharCode(t[Min(d)]))
       ELSE IntCmp(Len(s), Len(t))

Slash == "/"

RECURSIVE TrimStart(_)
TrimStart(s) ==
  IF s # <<>> /\ Head(s) = Slash THEN TrimStart(Tail(s)) ELSE s

RECURSIVE TrimEnd(_)
TrimEnd(s) ==
  IF s # <<>> /\ s[Len(s)] = Slash THEN TrimEnd(SubSeq(s, 1, Len(s) - 1)) ELSE s

Trim(s) == TrimEnd(TrimStart(s))

\* The text of s up to, and not including, its first "/" (all of s if none).
FirstComponent(s) ==
  LET at == {i \in 1..Len(s) : s[i] = Slash}
  IN IF at = {} THEN s ELSE SubSeq(s, 1, Min(at) - 1)

\* s without its first n characters.
Drop(s, n) == SubSeq(s, n + 1, Len(s))

\* The components of s, split on "/".
RECURSIVE Split(_)
Split(s) ==
  LET c == FirstComponent(s)
  IN IF Len(c) = Len(s) THEN <<c>> ELSE <<c>> \o Split(Drop(s, Len(c) + 1))

(***************************************************************************)
(* Segment and RouteSpec.                                                  *)
(***************************************************************************)
SegSlash == [kind |-> "Slash", text |-> <<>>]
SegWildcard == [kind |-> "Wildcard", text |-> <<>>]
SegParam(name) == [kind |-> "Param", text |-> name]
SegExact(text) == [kind |-> "Exact", text |-> text]

\* Exact > Param > Wildcard > separators.
KindRank(k) ==
  CASE k = "Slash" -> 0
    [] k = "Wildcard" -> 1
    [] k = "Param" -> 2
    [] k = "Exact" -> 3

SegmentCmp(s, t) ==
  IF s.kind # t.kind
    THEN IntCmp(KindRank(s.kind), KindRank(t.kind))
    ELSE StrCmp(s.text, t.text)

\* One component of a pattern parsed into one segment.
ParseSection(c) ==
  IF c # <<>> /\ Head(c) = "*"
    THEN IF Len(c) = 1
           THEN [ok |-> TRUE, err |-> "", seg |-> SegWildcard]
           ELSE [ok |-> FALSE, err |-> "named wildcard", seg |-> SegSlash]
    ELSE IF c # <<>> /\ Head(c) = ":"
      THEN IF Len(c) > 1
             THEN [ok |-> TRUE, err |-> "", seg |-> SegParam(Tail(c))]
             ELSE [ok |-> FALSE, err |-> "empty param", seg |-> SegSlash]
      ELSE [ok |-> TRUE, err |-> "", seg |-> SegExact(c)]

\* The segments of the parsed components, with a separator between them.
RECURSIVE Interleave(_)
Interleave(secs) ==
  IF Len(secs) = 1
    THEN <<secs[1].seg>>
    ELSE <<secs[1].seg, SegSlash>> \o Interleave(Tail(secs))

\* string -> RouteSpec, or a parse error.
TryIntoRouteSpec(pattern) ==
  LET comps == Split(Trim(pattern))
      secs == [i \in 1..Len(comps) |-> ParseSection(comps[i])]
      bad == {i \in 1..Len(secs) : ~secs[i].ok}
  IN IF bad # {}
       THEN [ok |-> FALSE, err |-> secs[Min(bad)].err, segments |-> <<>>]
       ELSE [ok |-> TRUE, err |-> "", segments |-> Interleave(secs)]

(***************************************************************************)
(* The inputs of the operations.                                           *)
(***************************************************************************)
Handlers == {"h1", "h2"}

\* The pattern strings handed to add: literals, parameters and wildcards at
\* one and two components, the same spec written in two ways (* and /*), and
\* the patterns that fail to parse.  A wildcard is the last component.
Patterns ==
  { <<"*">>,                          \* *
    <<"/", "*">>,                     \* /*
    <<"/", "a">>,                     \* /a
    <<"/", ":", "x">>,                \* /:x
    <<"/", "a", "/", "*">>,           \* /a/*
    <<"/", "a", "/", ":", "x">>,      \* /a/:x
    <<"/", "a", "/", "b">>,           \* /a/b
    <<"/", ":", "x", "/", ":", "y">>, \* /:x/:y
    <<"*", "t">>,                     \* *t
    <<"/", ":">>,                     \* /:
    <<"/", "a", "/", "*", "t">> }     \* /a/*t

PathComps == {<<"a">>, <<"b">>}

\* The parse of every pattern, computed once.
ParseOf == [p \in Patterns |-> TryIntoRouteSpec(p)]

ParseSpec(pattern) == ParseOf[pattern]

\* The paths of n components, each written with its leading "/".
RECURSIVE PathsOf(_)
PathsOf(n) ==
  IF n = 0
    THEN {<<>>}
    ELSE {<<Slash>> \o c \o p : c \in PathComps, p \in PathsOf(n - 1)}

\* The paths handed to matches and best_match: "/" and the paths of up to
\* MaxPathComps components.
Paths == {<<Slash>>} \cup UNION {PathsOf(n) : n \in 1..MaxPathComps}

(***************************************************************************)
(* Route: a RouteSpec paired with a handler.  Equality and ordering read   *)
(* the spec alone.                                                         *)
(***************************************************************************)
Route(segments, handler) == [spec |-> segments, handler |-> handler]

RouteEq(r1, r2) == r1.spec = r2.spec

\* The RouteSpecs that the patterns parse to.
Specs == {ParseSpec(p).segments : p \in {q \in Patterns : ParseSpec(q).ok}}

\* Segment by segment; the first differing position decides, and a strict
\* prefix sorts below the longer spec.
SpecCmp(a, b) ==
  LET d == {i \in 1..Len(a) : i <= Len(b) /\ SegmentCmp(a[i], b[i]) # Equal}
  IN IF d # {}
       THEN SegmentCmp(a[Min(d)], b[Min(d)])
       ELSE IntCmp(Len(a), Len(b))

\* The comparison of every two specs, computed once.
SpecCmpOf == [a \in Specs, b \in Specs |-> SpecCmp(a, b)]

RouteCmp(r1, r2) == SpecCmpOf[r1.spec, r2.spec]

None == <<>>
Some(x) == <<x>>

NewMatch(path, route, captures) ==
  [path |-> path, route |-> route, captures |-> captures]

\* The walk of a trimmed path p along the segments; caps are the captures so far.
RECURSIVE Walk(_, _, _)
Walk(segs, p, caps) ==
  IF segs = <<>>
    THEN [ok |-> p = <<>>, caps |-> caps]
    ELSE
      LET s == Head(segs)
          rest == Tail(segs)
          c == FirstComponent(p)
          fail == [ok |-> FALSE, caps |-> <<>>]
      IN CASE s.kind = "Exact" ->
                IF c = s.text THEN Walk(rest, Drop(p, Len(c)), caps) ELSE fail
           [] s.kind = "Param" ->
                IF c # <<>> THEN Walk(rest, Drop(p, Len(c)), Append(caps, c)) ELSE fail
           [] s.kind = "Wildcard" ->
                [ok |-> TRUE, caps |-> Append(caps, p)]
           [] s.kind = "Slash" ->
                IF p # <<>> /\ Head(p) = Slash
                  THEN Walk(rest, Tail(p), caps)
                  ELSE IF p = <<>> /\ rest # <<>> /\ Head(rest).kind = "Wildcard"
                    THEN Walk(rest, p, caps)
                    ELSE fail

\* The walk of every spec along every path, computed once.
WalkOf == [s \in Specs, p \in Paths |-> Walk(s, Trim(p), <<>>)]

\* Route::is_match: Some(Match) when the route matches the path.
IsMatch(route, path) ==
  LET w == WalkOf[route.spec, path]
  IN IF w.ok THEN Some(NewMatch(path, route, w.caps)) ELSE None

(***************************************************************************)
(* Match.                                                                  *)
(***************************************************************************)
Handler(m) == m.route.handler

MatchEq(m1, m2) == RouteEq(m2.route, m1.route)

\* zip the two segment lists, compare pairwise, take the first result that
\* is not Equal, and Equal if there is none.
ZipCmp(mine, theirs) ==
  LET n == IF Len(mine) < Len(theirs) THEN Len(mine) ELSE Len(theirs)
      c == [i \in 1..n |-> SegmentCmp(mine[i], theirs[i])]
      found == {i \in 1..n : c[i] # Equal}
  IN IF found # {} THEN c[Min(found)] ELSE Equal

\* ZipCmp of the segments of every two specs, computed once.
ZipCmpOf == [a \in Specs, b \in Specs |-> ZipCmp(a, b)]

\* Match::cmp
MatchCmp(m1, m2) == ZipCmpOf[m1.route.spec, m2.route.spec]

IsCapturing(s) == s.kind = "Param" \/ s.kind = "Wildcard"

RECURSIVE CapturesFold(_, _, _)
CapturesFold(segs, caps, acc) ==
  IF segs = <<>> \/ caps = <<>>
    THEN acc
    ELSE
      LET segment == Head(segs)
          capture == Head(caps)
          next ==
            CASE segment.kind = "Param" ->
                   [acc EXCEPT !.params = Append(@, <<segment.text, capture>>)]
              [] segment.kind = "Wildcard" ->
                   [acc EXCEPT !.wildcard = Some(capture)]
              [] OTHER -> acc
      IN CapturesFold(Tail(segs), Tail(caps), next)

\* Match::captures with the filter on the segment kind left out.
CapturesUnfiltered(m) ==
  CapturesFold(m.route.spec, m.captures, [params |-> <<>>, wildcard |-> None])

\* Match::captures
Captures(m) ==
  CapturesFold(SelectSeq(m.route.spec, IsCapturing), m.captures,
               [params |-> <<>>, wildcard |-> None])

(***************************************************************************)
(* BTreeSet, as the sorted sequence of its elements.                       *)
(***************************************************************************)
InsertAt(s, i, x) == SubSeq(s, 1, i - 1) \o <<x>> \o SubSeq(s, i, Len(s))

\* An insert that replaces an equal element by the new one.
RoutesInsertReplace(rs, r) ==
  LET at == {i \in 1..Len(rs) : RouteCmp(r, rs[i]) = Equal}
  IN IF at = {}
       THEN LET above == {i \in 1..Len(rs) : RouteCmp(r, rs[i]) = Less}
            IN IF above = {} THEN Append(rs, r) ELSE InsertAt(rs, Min(above), r)
       ELSE [rs EXCEPT ![Min(at)] = r]

\* self.routes.insert(route).  BTreeSet::insert searches the keys from the
\* left for the first one that the new key is not Greater than; an Equal key
\* is kept and the new one is dropped.
RoutesInsert(rs, r) ==
  LET at == {i \in 1..Len(rs) : RouteCmp(r, rs[i]) # Greater}
  IN IF at = {}
       THEN Append(rs, r)
       ELSE IF RouteCmp(r, rs[Min(at)]) = Equal
         THEN rs
         ELSE InsertAt(rs, Min(at), r)

\* The insert of a Match into the set of a Matches.
MatchesInsert(ms, m) ==
  LET at == {i \in 1..Len(ms) : MatchCmp(m, ms[i]) # Greater}
  IN IF at = {}
       THEN Append(ms, m)
       ELSE IF MatchCmp(m, ms[Min(at)]) = Equal
         THEN ms
         ELSE InsertAt(ms, Min(at), m)

RECURSIVE FilterMap(_, _)
FilterMap(rs, path) ==
  IF rs = <<>> THEN <<>> ELSE IsMatch(Head(rs), path) \o FilterMap(Tail(rs), path)

\* collect() by inserting the items one after the other.
RECURSIVE CollectInsert(_, _)
CollectInsert(items, acc) ==
  IF items = <<>>
    THEN acc
    ELSE CollectInsert(Tail(items), MatchesInsert(acc, Head(items)))

\* The stable insertion sort of the items under MatchCmp.
RECURSIVE StableSort(_, _)
StableSort(items, acc) ==
  IF items = <<>>
    THEN acc
    ELSE
      LET x == Head(items)
          after == {i \in 0..Len(acc) :
                      \A j \in (i + 1)..Len(acc) : MatchCmp(x, acc[j]) = Less}
      IN StableSort(Tail(items), InsertAt(acc, Min(after) + 1, x))

\* Of a run of neighbours that are equal (==), the last one is kept.
Dedup(s) ==
  SelectSeq([i \in 1..Len(s) |->
               IF i < Len(s) /\ MatchEq(s[i], s[i + 1]) THEN None ELSE Some(s[i])],
            LAMBDA o : o # None)

\* collect() by sorting the items and building the set from the sorted run.
CollectBulk(items) ==
  LET kept == Dedup(StableSort(items, <<>>))
  IN [i \in 1..Len(kept) |-> kept[i][1]]

\* Match orders by MatchCmp and is equal by MatchEq, and the two disagree, so
\* what collect() builds depends on how the library builds a BTreeSet from an
\* iterator: by inserting the items, or by sorting them and dropping equal
\* neighbours.  Both can be what a build does.
CollectModes == {"insert", "bulk"}

\* Matches::for_routes_and_path
ForRoutesAndPath(rs, path, mode) ==
  IF mode = "insert"
    THEN CollectInsert(FilterMap(rs, path), <<>>)
    ELSE CollectBulk(FilterMap(rs, path))

\* Matches::best
Best(ms) == IF ms = <<>> THEN None ELSE Some(ms[Len(ms)])

\* Matches::len
MatchesLen(ms) == Len(ms)

Reverse(s) == [i \in 1..Len(s) |-> s[Len(s) + 1 - i]]

\* Iterator::find_map over is_match
RECURSIVE FindMap(_, _)
FindMap(rs, path) ==
  IF rs = <<>>
    THEN None
    ELSE LET m == IsMatch(Head(rs), path)
         IN IF m # None THEN m ELSE FindMap(Tail(rs), path)

\* best_match without rev(): the routes are scanned from the lowest up.
RouterBestMatchNoRev(rs, path) == FindMap(rs, path)

\* Router::best_match
RouterBestMatch(rs, path) == FindMap(Reverse(rs), path)

NoResult ==
  [op |-> "new", ok |-> TRUE, pattern |-> <<>>, handler |-> "", path |-> <<>>,
   mode |-> "", matches |-> <<>>, best |-> None]

(***************************************************************************)
(* Router.                                                                 *)
(***************************************************************************)
\* Router::new / Router::default
Init ==
  /\ routes = <<>>
  /\ res = NoResult

Max(S) == CHOOSE x \in S : \A y \in S : x >= y

\* An add that, when a component fails to parse, still inserts the route of
\* the components before it.
AddPartial(pattern, handler) ==
  LET spec == ParseSpec(pattern)
      comps == Split(Trim(pattern))
      n == Max({k \in 0..Len(comps) : \A i \in 1..k : ParseSection(comps[i]).ok})
      partial == Interleave([i \in 1..n |-> ParseSection(comps[i])])
  IN /\ routes' = IF spec.ok
                     THEN RoutesInsert(routes, Route(spec.segments, handler))
                     ELSE IF n >= 1
                       THEN RoutesInsert(routes, Route(partial, handler))
                       ELSE routes
     /\ Len(routes') <= MaxRoutes
     /\ res' = [NoResult EXCEPT !.op = "add", !.ok = spec.ok,
                                !.pattern = pattern, !.handler = handler]

\* Router::add.  The router holds at most MaxRoutes routes.
Add(pattern, handler) ==
  LET spec == ParseSpec(pattern)
  IN /\ IF spec.ok
          THEN routes' = RoutesInsert(routes, Route(spec.segments, handler))
          ELSE routes' = routes
     /\ Len(routes') <= MaxRoutes
     /\ res' = [NoResult EXCEPT !.op = "add", !.ok = spec.ok,
                                !.pattern = pattern, !.handler = handler]

\* Router::matches
Matches(path, mode) ==
  /\ res' = [NoResult EXCEPT !.op = "matches", !.path = path, !.mode = mode,
                             !.matches = ForRoutesAndPath(routes, path, mode)]
  /\ UNCHANGED routes

\* Router::best_match
BestMatch(path) ==
  /\ res' = [NoResult EXCEPT !.op = "best_match", !.path = path,
                             !.best = RouterBestMatch(routes, path)]
  /\ UNCHANGED routes

Next ==
  \/ \E pattern \in Patterns, handler \in Handlers : Add(pattern, handler)
  \/ \E path \in Paths, mode \in CollectModes : Matches(path, mode)
  \/ \E path \in Paths : BestMatch(path)

Spec == Init /\ [][Next]_vars

(***************************************************************************)
(* Vocabulary of the properties.                                           *)
(***************************************************************************)
RouteSet(rs) == {rs[i] : i \in 1..Len(rs)}

\* The registered routes whose match test succeeds on the path.
Matching(rs, path) == {r \in RouteSet(rs) : IsMatch(r, path) # None}

\* The routes that a Matches collection reports.
Reported(ms) == {ms[i].route : i \in 1..Len(ms)}

\* A Match for a registered route, as a query for the path would bind it.
MatchFor(r, path) == NewMatch(path, r, <<>>)

IsStrictPrefix(a, b) == Len(a) < Len(b) /\ SubSeq(b, 1, Len(a)) = a

\* The positions that two specs share and at which their segments differ.
Differing(a, b) == {i \in 1..Len(a) : i <= Len(b) /\ a[i] # b[i]}

\* a ranks above b at position k: by segment kind, Exact > Param > Wildcard >
\* separators, and by text between two segments of one kind.
RanksAbove(a, b, k) ==
  IF a[k].kind # b[k].kind
    THEN KindRank(a[k].kind) > KindRank(b[k].kind)
    ELSE StrCmp(a[k].text, b[k].text) = Greater

\* C1: for every path, best_match is Some exactly when matches is non-empty,
\* and then it is a match for the same route as the best (maximum) element
\* of matches.
C1_BestMatchIsBestOfMatches ==
  res.op = "matches" =>
    LET b == RouterBestMatch(routes, res.path)
    IN /\ (b # None) <=> (res.matches # <<>>)
       /\ b # None => Best(res.matches)[1].route = b[1].route

\* C2: matches(path) holds exactly one Match per registered route whose
\* match test succeeds on the path and none for the others; its len() is the
\* number of such routes.
C2_MatchesHoldsEveryMatchingRoute ==
  res.op = "matches" =>
    /\ MatchesLen(res.matches) = Cardinality(Matching(routes, res.path))
    /\ Reported(res.matches) = Matching(routes, res.path)

\* C3: the comparison is a strict total order over the registered patterns:
\* never Equal for two distinct registered patterns, antisymmetric,
\* transitive, and the same whatever path the matches were made for.
C3_PrecedenceIsStrictTotalOrder ==
  \A r1, r2 \in RouteSet(routes) : \A p, q \in Paths :
    LET c == MatchCmp(MatchFor(r1, p), MatchFor(r2, p))
    IN /\ r1 # r2 => c # Equal
       /\ (c = Less) <=> (MatchCmp(MatchFor(r2, p), MatchFor(r1, p)) = Greater)
       /\ c = MatchCmp(MatchFor(r1, q), MatchFor(r2, q))
       /\ \A r3 \in RouteSet(routes) :
            (c = Less /\ MatchCmp(MatchFor(r2, p), MatchFor(r3, p)) = Less)
              => MatchCmp(MatchFor(r1, p), MatchFor(r3, p)) = Less

\* C5: when the segments of one registered pattern are a strict prefix of
\* another's, the comparison does not report them equal: the shorter pattern
\* sorts lower than the longer one.
C5_StrictPrefixSortsLower ==
  \A r1, r2 \in RouteSet(routes) :
    IsStrictPrefix(r1.spec, r2.spec) =>
      /\ MatchCmp(MatchFor(r1, <<Slash>>), MatchFor(r2, <<Slash>>)) = Less
      /\ MatchCmp(MatchFor(r2, <<Slash>>), MatchFor(r1, <<Slash>>)) = Greater

\* C4: two registered routes are ordered by the first position at which
\* their segments differ, ranked Exact > Param > Wildcard > separators; and
\* best_match returns, among the registered routes that match the path, one
\* that ranks above every other at the first position where they differ.
C4_FirstDifferenceDecides ==
  /\ \A r1, r2 \in RouteSet(routes) :
       LET d == Differing(r1.spec, r2.spec)
       IN d # {} =>
            ((MatchCmp(MatchFor(r1, <<Slash>>), MatchFor(r2, <<Slash>>)) = Greater)
               <=> RanksAbove(r1.spec, r2.spec, Min(d)))
  /\ res.op = "best_match" =>
       /\ (res.best # None) <=> (Matching(routes, res.path) # {})
       /\ res.best # None =>
            /\ res.best[1].route \in Matching(routes, res.path)
            /\ \A r \in Matching(routes, res.path) :
                 LET d == Differing(res.best[1].route.spec, r.spec)
                 IN d # {} => RanksAbove(res.best[1].route.spec, r.spec, Min(d))

\* best_match("/a") has answered /a with the routes /a, /:x and * registered.
C4_Witness ==
  /\ res.op = "best_match"
  /\ res.path = <<"/", "a">>
  /\ Cardinality(Matching(routes, res.path)) = 3
  /\ {<<SegWildcard>>, <<SegParam(<<"x">>)>>} \subseteq
       {r.spec : r \in RouteSet(routes)}
  /\ res.best # None
  /\ res.best[1].route.spec = <<SegExact(<<"a">>)>>

\* A component of the pattern is "*" followed by more text.
HasNamedWildcard(p) ==
  \E i \in 1..Len(p) :
    /\ p[i] = "*"
    /\ i = 1 \/ p[i - 1] = Slash
    /\ i < Len(p) /\ p[i + 1] # Slash

\* A component of the pattern is ":" alone.
HasEmptyParam(p) ==
  \E i \in 1..Len(p) :
    /\ p[i] = ":"
    /\ i = 1 \/ p[i - 1] = Slash
    /\ i = Len(p) \/ p[i + 1] = Slash

\* C6: an add whose pattern has a named wildcard or an empty parameter name
\* returns an error, a failed add leaves the registered routes exactly as they
\* were, and an add of the bare wildcard "*" succeeds and registers it.
C6_FailedAddLeavesRouter ==
  [][res'.op = "add" =>
       /\ (HasNamedWildcard(res'.pattern) \/ HasEmptyParam(res'.pattern))
            => ~res'.ok
       /\ ~res'.ok => routes' = routes
       /\ res'.pattern = <<"*">> =>
            res'.ok /\ <<SegWildcard>> \in {r.spec : r \in RouteSet(routes')}]_vars

\* A failed add of /a/*t on a router that holds routes.
C6_Witness ==
  /\ res.op = "add"
  /\ ~res.ok
  /\ res.pattern = <<"/", "a", "/", "*", "t">>
  /\ Len(routes) >= 2

\* The step is an add of a pattern whose spec is that of the registered
\* route r, with another handler than r's.
IsReAdd(r) ==
  /\ res'.op = "add"
  /\ ParseSpec(res'.pattern).ok
  /\ ParseSpec(res'.pattern).segments = r.spec
  /\ res'.handler # r.handler

\* C7: the router holds at most one route per spec; registering again the spec
\* of a registered route, with a different handler, does not add a route, and
\* matches(path), for every path that the spec matches, then holds exactly one
\* entry for that spec.
C7_OneRoutePerSpec ==
  [][/\ \A r1, r2 \in RouteSet(routes') : r1.spec = r2.spec => r1 = r2
     /\ \A r \in RouteSet(routes) :
          IsReAdd(r) =>
            /\ Len(routes') = Len(routes)
            /\ \A path \in Paths, mode \in CollectModes :
                 IsMatch(r, path) # None =>
                   LET ms == ForRoutesAndPath(routes', path, mode)
                   IN Cardinality({i \in 1..Len(ms) : ms[i].route.spec = r.spec})
                        = 1]_vars

\* The text of the components from the c-th on, joined by "/".
RECURSIVE JoinFrom(_, _)
JoinFrom(comps, c) ==
  IF c > Len(comps)
    THEN <<>>
    ELSE IF c = Len(comps)
      THEN comps[c]
      ELSE comps[c] \o <<Slash>> \o JoinFrom(comps, c + 1)

\* What the claim says captures() returns for a route that matches the path:
\* the segment at position k stands for component (k + 1) \div 2 of the path.
ExpectedCaptures(spec, path) ==
  LET comps == Split(Trim(path))
      at == SelectSeq([k \in 1..Len(spec) |-> k], LAMBDA k : spec[k].kind = "Param")
      wild == {k \in 1..Len(spec) : spec[k].kind = "Wildcard"}
  IN [params |-> [j \in 1..Len(at) |->
                    <<spec[at[j]].text, comps[(at[j] + 1) \div 2]>>],
      wildcard |-> IF wild = {}
                     THEN None
                     ELSE Some(JoinFrom(comps, (Min(wild) + 1) \div 2))]

\* C8: for every match that a query returns, captures() is one (name, value)
\* pair per Param segment, in pattern order, the value being the component of
\* the path that the Param consumed, and the wildcard value is present exactly
\* when the route has a Wildcard segment and is then the rest of the path.
C8_CapturesFollowThePattern ==
  /\ \A i \in 1..Len(res.matches) :
       Captures(res.matches[i]) =
         ExpectedCaptures(res.matches[i].route.spec, res.path)
  /\ \A i \in 1..Len(res.best) :
       Captures(res.best[i]) = ExpectedCaptures(res.best[i].route.spec, res.path)

\* matches("/a/b") has returned the match of /:x/:y, with the captures
\* (x, a), (y, b) and no wildcard, and the match of *, with the wildcard a/b.
C8_Witness ==
  /\ res.op = "matches"
  /\ res.path = <<"/", "a", "/", "b">>
  /\ \E i \in 1..Len(res.matches) :
       /\ res.matches[i].route.spec =
            <<SegParam(<<"x">>), SegSlash, SegParam(<<"y">>)>>
       /\ Captures(res.matches[i]) =
            [params |-> << <<<<"x">>, <<"a">>>>, <<<<"y">>, <<"b">>>> >>,
             wildcard |-> None]
  /\ \E i \in 1..Len(res.matches) :
       /\ res.matches[i].route.spec = <<SegWildcard>>
       /\ Captures(res.matches[i]) =
            [params |-> <<>>, wildcard |-> Some(<<"a", "/", "b">>)]

\* C9: the router starts empty, no operation removes a registered route, the
\* two queries leave the routes unchanged, and for every path the routes that
\* matches(path) reports after an operation include those it reported before.
C9_RoutesOnlyGrow ==
  [][/\ RouteSet(routes) \subseteq RouteSet(routes')
     /\ res'.op \in {"matches", "best_match"} => routes' = routes
     /\ \A path \in Paths, mode \in CollectModes :
          Reported(ForRoutesAndPath(routes, path, mode))
            \subseteq Reported(ForRoutesAndPath(routes', path, mode))]_vars

\* C10: an add of a pattern whose spec is already registered, with another
\* handler, returns Ok and leaves the router unchanged; no later operation
\* replaces a registered route, and every match that a query returns is a
\* match of a registered route, so that it carries the first handler.
C10_DuplicateKeepsFirst ==
  [][/\ res'.op = "add" =>
          \A r \in RouteSet(routes) :
            IsReAdd(r) => res'.ok /\ routes' = routes
     /\ routes' # routes => RouteSet(routes) \subseteq RouteSet(routes')
     /\ res'.op = "best_match" =>
          \A i \in 1..Len(res'.best) : res'.best[i].route \in RouteSet(routes)
     /\ res'.op = "matches" =>
          Reported(res'.matches) \subseteq RouteSet(routes)]_vars

\* An add of /* with handler h2 has returned Ok on a router where the same
\* spec is registered with handler h1.
C10_Witness ==
  /\ res.op = "add"
  /\ res.ok
  /\ res.pattern = <<"/", "*">>
  /\ res.handler = "h2"
  /\ Route(<<SegWildcard>>, "h1") \in RouteSet(routes)

====
